---- MODULE Spec2Model ----
(***************************************************************************)
(* Video transcriber: the SQLite segment store (modules/indexer.py) and    *)
(* the per-video transcription workers (gui/main_window.py,                *)
(* core/controller.py, modules/extractor.py, utils/ffmpeg_downloader.py).  *)
(*                                                                         *)
(* Every state of the store variables is a COMMITTED state of the          *)
(* database: a transaction is one action, because SQLite shows other       *)
(* connections committed data only.  index_video is two actions because   *)
(* it runs two transactions on two connections.                            *)
(***************************************************************************)
EXTENDS Integers, Sequences, FiniteSets, TLC

(***************************************************************************)
(* Bounds of the model.                                                    *)
(***************************************************************************)
\* longest segment list handed to index_video
MaxSegs == 2
\* the store stops accepting index_video once the AUTOINCREMENT counter of
\* the videos table has reached this value
MaxVideoId == 2
\* workers that start_transcription creates in one behaviour
MaxWorkers == 2
\* events posted to the GUI thread and not yet delivered
MaxQueue == 2
\* longest segment list handed to the subtitle shaping functions
MaxShapeSegs == 3
\* a small max_chars handed to merge_short_segments
SmallMergeChars == 7
\* a small max_chars handed to split_long_segments
SmallSplitChars == 3

(***************************************************************************)
(* Input domains.                                                          *)
(***************************************************************************)
Paths == {"p", "q"}

\* Python None in a REAL NOT NULL column
NULLV == -1

Seg(s, e, t) == [start |-> s, end |-> e, text |-> t]

\* texts are sequences of characters
SegDomain ==
  { Seg(0, 1, <<"a">>),
    Seg(1, 2, <<" ", "b">>),
    Seg(0, 2, <<" ">>),
    Seg(NULLV, 1, <<"c">>) }

SegLists == UNION { [1..n -> SegDomain] : n \in 0..MaxSegs }

\* queries handed to search: empty, whitespace only, one token, several
\* tokens, and each of the two with characters of the FTS5 query syntax
Queries ==
  { << >>,
    <<" ">>,
    <<"a">>,
    <<"a", " ", "b">>,
    <<"a", "\"">>,
    <<"a", "*">>,
    <<"a", "-", "b">>,
    <<"a", ":", "b">>,
    <<"(", "a", ")">>,
    <<"a", " ", "\"", "b">>,
    <<"a", " ", "-", "(", "b", ")", ":", "*">> }

\* the limit of search: one row, and the default
Limits == {1, 50}

\* segment lists handed to index_video before a search: texts "a", "a b" and
\* "b"; two segments of the same text, the later one first and the earlier
\* one first; a longer text before a shorter one
SearchSegLists ==
  { << >>,
    << Seg(1, 2, <<"a">>) >>,
    << Seg(1, 2, <<"a">>), Seg(0, 1, <<"a">>) >>,
    << Seg(0, 1, <<"a">>), Seg(1, 2, <<"a">>) >>,
    << Seg(2, 3, <<"a", " ", "b">>), Seg(1, 2, <<"a">>) >>,
    << Seg(0, 3, <<"b">>), Seg(2, 3, <<"a", " ", "b">>) >> }

(***************************************************************************)
(* Pure helpers.                                                           *)
(***************************************************************************)
IsSpace(c) == c = " "

RECURSIVE lstrip(_)
lstrip(t) == IF t # <<>> /\ IsSpace(Head(t)) THEN lstrip(Tail(t)) ELSE t

RECURSIVE rstrip(_)
rstrip(t) ==
  IF t # <<>> /\ IsSpace(t[Len(t)]) THEN rstrip(SubSeq(t, 1, Len(t) - 1)) ELSE t

\* str.strip()
strip(t) == rstrip(lstrip(t))

IsPrefix(a, b) == Len(a) <= Len(b) /\ \A i \in 1..Len(a) : a[i] = b[i]

\* all orderings of a finite set as sequences
RECURSIVE Orderings(_)
Orderings(S) ==
  IF S = {} THEN { <<>> }
  ELSE UNION { { <<x>> \o r : r \in Orderings(S \ {x}) } : x \in S }

(***************************************************************************)
(* State.                                                                  *)
(***************************************************************************)
VARIABLES
  videos,           \* table videos: rows [id, path]
  segments,         \* table segments: rows [id, video_id, start_time, end_time, text]
  segments_fts,     \* FTS5 index over segments: entries [rowid, text]
  sqlite_sequence,  \* AUTOINCREMENT counters [videos, segments]
  call,             \* the index_video call in flight, or [pc |-> "idle"]
  ret,              \* the last store or subtitler call that returned
  seen,             \* the last result a concurrent reader got
  video_tasks,      \* MainWindow.video_tasks: the queued paths
  progress,         \* widget.progress value of each queued path
  workers,          \* MainWindow.workers: path -> worker, 0 when absent
  threads,          \* the TranscriptionWorker threads created so far
  queue,            \* signals posted to the GUI thread, oldest first
  lastStart,        \* what the last start_transcription did with each path
  video_cache       \* TranscriptionController.video_cache: path -> segments

storeVars == <<videos, segments, segments_fts, sqlite_sequence, call, ret, seen>>

pipeVars == <<video_tasks, progress, workers, threads, queue, lastStart,
              video_cache>>

vars == <<videos, segments, segments_fts, sqlite_sequence, call, ret, seen,
          video_tasks, progress, workers, threads, queue, lastStart,
          video_cache>>

Idle == [pc |-> "idle"]
NoRet == [op |-> "none"]
NoSeen == [op |-> "none"]

\* a path without an entry in video_cache
NotCached == [cached |-> FALSE, segments |-> << >>]

\* the committed database as one value
DB == [videos |-> videos, segments |-> segments, fts |-> segments_fts,
       seq |-> sqlite_sequence]

SetDB(db) ==
  /\ videos' = db.videos
  /\ segments' = db.segments
  /\ segments_fts' = db.fts
  /\ sqlite_sequence' = db.seq

(***************************************************************************)
(* Triggers of init_database.                                              *)
(***************************************************************************)
FtsEntries(rows) == { [rowid |-> r.id, text |-> r.text] : r \in rows }

\* AFTER INSERT ON segments
segments_ai(fts, new) == fts \cup FtsEntries(new)

\* a delete trigger that forgets the index entries
segments_ad_stale(fts, old) == fts

\* AFTER DELETE ON segments
segments_ad(fts, old) == fts \ FtsEntries(old)

(***************************************************************************)
(* Readers: one SELECT each, on the committed state.                       *)
(***************************************************************************)
\* an is_video_indexed answered from the cache of the controller
is_video_indexed_by_cache(p) == video_cache[p].cached

\* a store that never reports a video as indexed
is_video_indexed_never(p) == FALSE

\* an is_video_indexed that looks for segments of the video
is_video_indexed_by_segments(p) ==
  \E v \in videos : v.path = p /\ \E s \in segments : s.video_id = v.id

is_video_indexed(p) == \E v \in videos : v.path = p

RowsOf(db, p) ==
  { s \in db.segments : \E v \in db.videos : v.path = p /\ v.id = s.video_id }

Out(row) == Seg(row.start_time, row.end_time, row.text)

IsOrderedByStart(rs) ==
  \A i \in 1..Len(rs) - 1 : rs[i].start_time <= rs[i + 1].start_time

\* ORDER BY s.start_time: rows of equal start_time come in any order
get_all_segments_of(db, p) ==
  { [i \in 1..Len(rs) |-> Out(rs[i])] :
      rs \in { o \in Orderings(RowsOf(db, p)) : IsOrderedByStart(o) } }

get_all_segments(p) == get_all_segments_of(DB, p)

get_database_stats ==
  [video_count |-> Cardinality(videos), segment_count |-> Cardinality(segments)]

(***************************************************************************)
(* search: prepare_fts_query, then the MATCH query on segments_fts.        *)
(*                                                                         *)
(* FTS5 is modelled for the two shapes prepare_fts_query produces from the *)
(* queries of the model: a quoted string and a bareword, each with an      *)
(* optional trailing star.  Every other text is a syntax error of FTS5 for *)
(* these queries (they name no column of the table and close no            *)
(* parenthesis).                                                           *)
(***************************************************************************)
Quote == "\""

\* the characters the unicode61 tokenizer keeps, which are also the
\* characters of an FTS5 bareword
TokenChars == {"a", "b", "c"}

IsTokenChar(c) == c \in TokenChars

\* length of the run of token characters at the head of t
RECURSIVE TokenRun(_)
TokenRun(t) ==
  IF t = <<>> \/ ~IsTokenChar(Head(t)) THEN 0 ELSE 1 + TokenRun(Tail(t))

\* the tokens of a text: its maximal runs of token characters
RECURSIVE Tokens(_)
Tokens(t) ==
  IF t = <<>> THEN <<>>
  ELSE IF ~IsTokenChar(Head(t)) THEN Tokens(Tail(t))
  ELSE LET n == TokenRun(t)
       IN <<SubSeq(t, 1, n)>> \o Tokens(SubSeq(t, n + 1, Len(t)))

\* query.replace('"', '""')
RECURSIVE replace_quote(_)
replace_quote(t) ==
  IF t = <<>> THEN <<>>
  ELSE (IF Head(t) = Quote THEN <<Quote, Quote>> ELSE <<Head(t)>>)
         \o replace_quote(Tail(t))

prepare_fts_query(query) ==
  LET q == strip(query) IN
  IF q = <<>> THEN <<Quote, Quote>>
  ELSE IF \E i \in 1..Len(q) : q[i] = " "
    THEN <<Quote>> \o replace_quote(q) \o <<Quote>>
  ELSE q \o <<"*">>

SyntaxError == [ok |-> FALSE, tokens |-> <<>>, prefix |-> FALSE]

\* FTS5 reads a string after its opening quote: "" stands for one quote
RECURSIVE ScanString(_)
ScanString(s) ==
  IF s = <<>> THEN [ok |-> FALSE, content |-> <<>>, rest |-> <<>>]
  ELSE IF Head(s) = Quote
    THEN IF Len(s) >= 2 /\ s[2] = Quote
           THEN LET r == ScanString(SubSeq(s, 3, Len(s)))
                IN [r EXCEPT !.content = <<Quote>> \o @]
           ELSE [ok |-> TRUE, content |-> <<>>, rest |-> Tail(s)]
  ELSE LET r == ScanString(Tail(s))
       IN [r EXCEPT !.content = <<Head(s)>> \o @]

\* the phrase of an FTS5 query: its tokens, and whether the last token is a
\* prefix
Fts5Phrase(fts_query) ==
  IF fts_query = <<>> THEN SyntaxError
  ELSE IF Head(fts_query) = Quote
    THEN LET r == ScanString(Tail(fts_query)) IN
         IF r.ok /\ r.rest \in {<<>>, <<"*">>}
           THEN [ok |-> TRUE, tokens |-> Tokens(r.content),
                 prefix |-> r.rest = <<"*">>]
           ELSE SyntaxError
  ELSE LET n == TokenRun(fts_query)
           rest == SubSeq(fts_query, n + 1, Len(fts_query))
       IN IF n > 0 /\ rest \in {<<>>, <<"*">>}
            THEN [ok |-> TRUE, tokens |-> <<SubSeq(fts_query, 1, n)>>,
                  prefix |-> rest = <<"*">>]
            ELSE SyntaxError

\* the phrase occurs in doc at position i
MatchAt(doc, phrase, i) ==
  /\ i + Len(phrase.tokens) - 1 <= Len(doc)
  /\ \A k \in 1..Len(phrase.tokens) :
       IF k = Len(phrase.tokens) /\ phrase.prefix
         THEN IsPrefix(phrase.tokens[k], doc[i + k - 1])
         ELSE doc[i + k - 1] = phrase.tokens[k]

\* occurrences of the phrase in a text; a phrase without tokens occurs nowhere
PhraseCount(text, phrase) ==
  LET doc == Tokens(text) IN
  IF phrase.tokens = <<>> THEN 0
  ELSE Cardinality({ i \in 1..Len(doc) : MatchAt(doc, phrase, i) })

RECURSIVE SumTokens(_)
SumTokens(rows) ==
  IF rows = {} THEN 0
  ELSE LET r == CHOOSE x \in rows : TRUE
       IN Len(Tokens(r.text)) + SumTokens(rows \ {r})

\* bm25 of FTS5 with k1 = 1.2 and b = 0.75, as the fraction num / den up to
\* the factor (k1 + 1) * idf, which is positive and the same for every row:
\*   tf / (tf + k1 * (1 - b + b * dl / avgdl))   times  10 * total / (10 * total)
\* n rows and total tokens are those of the whole index
Bm25(tf, dl, n, total) ==
  [num |-> 10 * total * tf, den |-> 10 * total * tf + 3 * total + 9 * n * dl]

\* r is more relevant than s: its rank, -bm25, is smaller
Better(r, s) == r.num * s.den > s.num * r.den

\* ORDER BY rank
IsOrderedByRank(rs) ==
  \A i \in 1..Len(rs) - 1 : ~Better(rs[i + 1].rank, rs[i].rank)

\* the rows of the join of segments and segments_fts that satisfy
\* WHERE s.video_id = ? AND segments_fts MATCH ?, with their rank; id and
\* video_id are not part of the dict the code returns, they are kept to state
\* where a hit comes from
Hits(db, video_id, phrase) ==
  LET n == Cardinality(db.fts)
      total == SumTokens(db.fts)
      joined == { je \in db.segments \X db.fts :
                    /\ je[2].rowid = je[1].id
                    /\ je[1].video_id = video_id
                    /\ PhraseCount(je[2].text, phrase) > 0 }
  IN { [id |-> je[1].id, video_id |-> je[1].video_id,
        start |-> je[1].start_time, end |-> je[1].end_time,
        text |-> je[1].text,
        rank |-> Bm25(PhraseCount(je[2].text, phrase),
                      Len(Tokens(je[2].text)), n, total)] : je \in joined }

\* LIMIT ?
Limit(rs, limit) == SubSeq(rs, 1, IF Len(rs) < limit THEN Len(rs) ELSE limit)

\* search(p, query, limit): the possible outcomes.  Rows of equal rank come in
\* any order.  ok = FALSE is RuntimeError("Search failed: ...").
search_of(db, p, query, limit) ==
  LET row == { v \in db.videos : v.path = p } IN
  IF row = {} THEN { [ok |-> TRUE, video_id |-> NULLV, res |-> <<>>] }
  ELSE LET video_id == (CHOOSE v \in row : TRUE).id
           phrase == Fts5Phrase(prepare_fts_query(query))
       IN IF ~phrase.ok
            THEN { [ok |-> FALSE, video_id |-> video_id, res |-> <<>>] }
            ELSE { [ok |-> TRUE, video_id |-> video_id, res |-> Limit(o, limit)] :
                     o \in { x \in Orderings(Hits(db, video_id, phrase)) :
                               IsOrderedByRank(x) } }

search(p, query, limit) == search_of(DB, p, query, limit)

(***************************************************************************)
(* Transactions.                                                           *)
(***************************************************************************)
\* remove_video_index that deletes the video row and leaves its segments
RemoveTxnKeepSegments(db, p) ==
  [db EXCEPT !.videos = { v \in @ : v.path # p }]

\* remove_video_index that deletes the segments and leaves the video row
RemoveTxnKeepVideo(db, p) ==
  LET old == RowsOf(db, p)
  IN [db EXCEPT !.segments = @ \ old, !.fts = segments_ad(@, old)]

\* the transaction of remove_video_index
RemoveTxn(db, p) ==
  LET row == { v \in db.videos : v.path = p } IN
  IF row = {} THEN db
  ELSE LET video_id == (CHOOSE v \in row : TRUE).id
           old == { s \in db.segments : s.video_id = video_id }
       IN [db EXCEPT !.segments = @ \ old,
                     !.fts = segments_ad(@, old),
                     !.videos = { v \in @ : v.id # video_id }]

\* index_video that keeps empty-text segments
segment_data_unfiltered(segs) == segs

\* the list comprehension of index_video
segment_data(segs) == SelectSeq(segs, LAMBDA seg : strip(seg.text) # <<>>)

ViolatesNotNull(seg) == seg.start = NULLV \/ seg.end = NULLV

\* the transaction of index_video after remove_video_index has returned:
\* INSERT INTO videos, executemany INSERT INTO segments, commit.
\* Gives [ok, db]; a failure rolls everything of this transaction back.
InsertTxn(db, p, segs) ==
  LET data == segment_data(segs)
      video_id == db.seq.videos + 1
      new == { [id |-> db.seq.segments + i, video_id |-> video_id,
                start_time |-> data[i].start, end_time |-> data[i].end,
                text |-> data[i].text] : i \in 1..Len(data) }
  IN IF \E v \in db.videos : v.path = p
       THEN [ok |-> FALSE, db |-> db]                 \* UNIQUE(path)
     ELSE IF \E i \in 1..Len(data) : ViolatesNotNull(data[i])
       THEN [ok |-> FALSE, db |-> db]                 \* NOT NULL
     ELSE [ok |-> TRUE,
           db |-> [videos |-> db.videos \cup {[id |-> video_id, path |-> p]},
                   segments |-> db.segments \cup new,
                   fts |-> segments_ai(db.fts, new),
                   seq |-> [videos |-> video_id,
                            segments |-> db.seq.segments + Len(data)]]]

(***************************************************************************)
(* Store operations.                                                       *)
(***************************************************************************)
InitStore ==
  /\ videos = {}
  /\ segments = {}
  /\ segments_fts = {}
  /\ sqlite_sequence = [videos |-> 0, segments |-> 0]
  /\ call = Idle
  /\ ret = NoRet
  /\ seen = NoSeen
  /\ video_tasks = {}
  /\ progress = [p \in Paths |-> 0]
  /\ workers = [p \in Paths |-> 0]
  /\ threads = << >>
  /\ queue = << >>
  /\ lastStart = [started |-> {}, skipped |-> {}, cached |-> {}]
  /\ video_cache = [p \in Paths |-> NotCached]

\* index_video(p, segs) is entered: sqlite3.connect
IndexVideoCall(p, segs) ==
  /\ call.pc = "idle"
  /\ sqlite_sequence.videos < MaxVideoId
  /\ call' = [pc |-> "remove", path |-> p, segs |-> segs,
              wasIndexed |-> is_video_indexed(p),
              old |-> get_all_segments(p),
              stats0 |-> get_database_stats,
              rep |-> /\ ret.op = "index_video" /\ ret.ok
                      /\ ret.path = p /\ ret.segs = segs]
  /\ seen' = NoSeen
  /\ ret' = NoRet
  /\ UNCHANGED <<videos, segments, segments_fts, sqlite_sequence, pipeVars>>

\* index_video line 100: remove_video_index on its own connection, committed
\* there; an error inside it is logged and swallowed
IndexVideoRemove ==
  /\ call.pc = "remove"
  /\ \E error \in BOOLEAN :
       SetDB(IF error THEN DB ELSE RemoveTxn(DB, call.path))
  /\ call' = [call EXCEPT !.pc = "insert"]
  /\ UNCHANGED <<ret, seen, pipeVars>>

\* index_video lines 102-130: the inserts and the commit, or the rollback and
\* RuntimeError
IndexVideoInsert ==
  /\ call.pc = "insert"
  /\ \E error \in BOOLEAN :
       LET r == InsertTxn(DB, call.path, call.segs)
           ok == r.ok /\ ~error
       IN /\ SetDB(IF ok THEN r.db ELSE DB)
          /\ ret' = [op |-> "index_video", path |-> call.path,
                     segs |-> call.segs, ok |-> ok,
                     wasIndexed |-> call.wasIndexed, old |-> call.old,
                     stats0 |-> call.stats0, rep |-> call.rep]
  /\ call' = Idle
  /\ UNCHANGED <<seen, pipeVars>>

\* remove_video_index(p) called by the client.  An sqlite3 error inside it
\* is caught by `except Exception` and logged: the call returns normally in
\* both cases.  ret keeps what the call found: the id of the video row, the
\* ids of its segments, whether the database came out the same, and whether
\* the call repeats the one before.
RemoveVideoIndex(p) ==
  /\ call.pc = "idle"
  /\ \E error \in BOOLEAN :
       LET db == IF error THEN DB ELSE RemoveTxn(DB, p) IN
       /\ SetDB(db)
       /\ ret' = [op |-> "remove_video_index", path |-> p,
                  wasIndexed |-> is_video_indexed(p),
                  error |-> error, raised |-> FALSE,
                  video_ids |-> { v.id : v \in { x \in videos : x.path = p } },
                  oldIds |-> { r.id : r \in RowsOf(DB, p) },
                  same |-> db = DB,
                  rep |-> /\ ret.op = "remove_video_index" /\ ret.path = p
                          /\ ~ret.error]
  /\ seen' = NoSeen
  /\ UNCHANGED <<call, pipeVars>>

\* 'rebuild' of the FTS index from the content table
FtsRebuild(db) == [db EXCEPT !.fts = FtsEntries(db.segments)]

\* optimize_database: the rebuild opens a transaction, VACUUM then raises
\* "cannot VACUUM from within a transaction", the with block rolls back and
\* the error is logged
OptimizeDatabase ==
  /\ call.pc = "idle"
  /\ LET rebuilt == FtsRebuild(DB)
         vacuumRaises == TRUE
     IN SetDB(IF vacuumRaises THEN DB ELSE rebuilt)
  /\ ret' = [op |-> "optimize_database"]
  /\ seen' = NoSeen
  /\ UNCHANGED <<call, pipeVars>>

\* a reader on its own connection, at any moment
ReadIsVideoIndexed(p) ==
  /\ seen' = [op |-> "is_video_indexed", path |-> p, res |-> is_video_indexed(p)]
  /\ seen' # seen
  /\ UNCHANGED <<videos, segments, segments_fts, sqlite_sequence, call, ret, pipeVars>>

ReadGetAllSegments(p) ==
  /\ \E r \in get_all_segments(p) :
       seen' = [op |-> "get_all_segments", path |-> p, res |-> r]
  /\ seen' # seen
  /\ UNCHANGED <<videos, segments, segments_fts, sqlite_sequence, call, ret, pipeVars>>

NextStore ==
  \/ \E p \in Paths, segs \in SegLists : IndexVideoCall(p, segs)
  \/ IndexVideoRemove
  \/ IndexVideoInsert
  \/ \E p \in Paths : RemoveVideoIndex(p)
  \/ OptimizeDatabase
  \/ \E p \in Paths : ReadIsVideoIndexed(p)
  \/ \E p \in Paths : ReadGetAllSegments(p)

SpecStore == InitStore /\ [][NextStore]_vars

(***************************************************************************)
(* The store under search: index_video fills it, search reads it on its    *)
(* own connection at any moment.                                           *)
(***************************************************************************)
ReadSearch(p, query, limit) ==
  /\ \E r \in search(p, query, limit) :
       seen' = [op |-> "search", path |-> p, query |-> query, limit |-> limit,
                ok |-> r.ok, video_id |-> r.video_id, res |-> r.res]
  /\ seen' # seen
  /\ UNCHANGED <<videos, segments, segments_fts, sqlite_sequence, call, ret, pipeVars>>

NextSearch ==
  \/ \E p \in Paths, segs \in SearchSegLists : IndexVideoCall(p, segs)
  \/ IndexVideoRemove
  \/ IndexVideoInsert
  \/ \E p \in Paths, query \in Queries, limit \in Limits : ReadSearch(p, query, limit)

SpecSearch == InitStore /\ [][NextSearch]_vars

(***************************************************************************)
(* The store with two videos: index_video and remove_video_index of one    *)
(* path while another path is indexed.                                     *)
(***************************************************************************)
\* segment lists handed to index_video: none; "a a b" and "a", which both
\* match the query a; one long text without an a
FrameSegLists ==
  { << >>,
    << Seg(0, 1, <<"a", " ", "a", " ", "b">>), Seg(1, 2, <<"a">>) >>,
    << Seg(0, 1, <<"c", " ", "c", " ", "c", " ", "c", " ", "c", " ", "c">>) >> }

NextFrame ==
  \/ \E p \in Paths, segs \in FrameSegLists : IndexVideoCall(p, segs)
  \/ IndexVideoRemove
  \/ IndexVideoInsert
  \/ \E p \in Paths : RemoveVideoIndex(p)

SpecFrame == InitStore /\ [][NextFrame]_vars

(***************************************************************************)
(* The transcription workers (gui/main_window.py).                         *)
(*                                                                         *)
(* A worker thread emits its signals to the GUI thread through queued      *)
(* connections: emitting appends to queue, the GUI thread delivers the     *)
(* head.  start_transcription, add_videos and the slots run on the GUI     *)
(* thread, one at a time.                                                  *)
(***************************************************************************)
\* parameters of TranscriptionController.transcribe_audio, self included
transcribe_audio_params == 3
\* arguments of the call in TranscriptionWorker.run, self included
transcribe_audio_args == 5

\* extract() line 86
max_retries == 3

\* percentages that urlretrieve's progress_hook reports
HookPercents == {50, 100}

StageOrder == <<"extract", "transcribe", "subtitles", "index">>

\* int(percentage * 0.2)
IntTimes02(percentage) == (percentage * 2) \div 10

\* a callback that republishes the local percentage as the job percent
audio_progress_callback_unscaled(percentage) == percentage

\* audio_progress_callback: progress = 10 + int(percentage * 0.2)
audio_progress_callback(percentage) == 10 + IntTimes02(percentage)

\* int(percentage * 0.6)
IntTimes06(percentage) == (percentage * 6) \div 10

\* progress_callback: progress = 30 + int(percentage * 0.6)
progress_callback(percentage) == 30 + IntTimes06(percentage)

ProgressEvent(path, percent) ==
  [kind |-> "progress_updated", path |-> path, percent |-> percent]

CompletedEvent(path, success, message) ==
  [kind |-> "transcription_completed", path |-> path, success |-> success,
   message |-> message]

NewThread(path) ==
  [path |-> path, pc |-> "start", percent |-> 0, dl |-> 0,
   stages |-> << >>, audio |-> FALSE, raised |-> "none", completions |-> 0,
   result |-> "none", error |-> << >>, retry_count |-> 0]

Workers == 1..Len(threads)

\* the worker is inside controller.extract_audio
InExtract(t) ==
  t.pc \in {"ensure_ffmpeg", "download", "install", "cb20", "cb50", "ffmpeg_run",
           "verify", "warned", "return"}

\* run() has not returned
Running(t) == t.pc # "done"

CanEmit == Len(queue) < MaxQueue

\* progress_updated.emit(self.video_path, percent, ...)
EmitProgress(w, percent, pc) ==
  /\ CanEmit
  /\ queue' = Append(queue, ProgressEvent(threads[w].path, percent))
  /\ threads' = [threads EXCEPT ![w].percent = percent, ![w].pc = pc,
                                ![w].dl = 0]

\* messages are sequences of pieces of text, f"...{str(e)}" is \o

\* where the video files of the model are: a/v.mp4 and b/v.mp4
Location ==
  [p |-> [parent |-> "a", stem |-> "v", suffix |-> ".mp4"],
   q |-> [parent |-> "b", stem |-> "v", suffix |-> ".mp4"]]

\* Path(video_path).stem: the file name without directory and suffix
stem(video_path) == Location[video_path].stem

\* extract() lines 38-42 with output_dir None:
\* os.path.join(tempfile.gettempdir(), f"{video_name}_audio.wav")
audio_path(video_path) == <<"tmp", stem(video_path) \o "_audio.wav">>

\* extract() line 35
FileNotFound(path) == <<"Video file not found: ", path>>

\* extract() line 53
FfmpegNotAvailable == <<"FFmpeg is not available and could not be downloaded">>

\* extract() line 82
OutputNotCreated == <<"Audio extraction failed - output file not created">>

\* what ffmpeg wrote to stderr
Stderr == <<"stderr of ffmpeg">>

\* extract() lines 109-112: except ffmpeg.Error
FfmpegError(stderr) == <<"FFmpeg error during audio extraction: ">> \o stderr

\* extract() lines 113-116: except Exception, which also catches the
\* RuntimeErrors raised inside the try block
ExtractionFailed(cause) == <<"Audio extraction failed: ">> \o cause

\* str(e) of the TypeError of run() line 70
TooManyArguments ==
  <<"TranscriptionController.transcribe_audio() takes from 2 to 3 positional arguments but 5 were given">>

\* a stage error that run() does not catch before the next stage
OnStageErrorContinue(t, stage) ==
  [t EXCEPT !.pc = IF stage = "extract" THEN "emit30" ELSE "except",
            !.raised = stage, !.dl = 0]

\* try ... except Exception of run(): control goes to the handler
OnStageError(t, stage) == [t EXCEPT !.pc = "except", !.raised = stage, !.dl = 0]

\* the stage raises an exception whose str() is message
Raise(w, stage, message) ==
  /\ threads' = [threads EXCEPT
       ![w] = OnStageError([@ EXCEPT !.error = message], stage)]
  /\ UNCHANGED queue

pipeFrame == <<storeVars, video_tasks, progress, workers, lastStart, video_cache>>

\* run() line 66
RunEmit10(w) ==
  /\ threads[w].pc = "start"
  /\ EmitProgress(w, 10, "extract")
  /\ UNCHANGED pipeFrame

\* run() line 67 and extract() lines 34-50: the extraction stage is entered
ExtractEnter(w) ==
  /\ threads[w].pc = "extract"
  /\ \E exists \in BOOLEAN :
       IF exists
         THEN /\ CanEmit
              /\ queue' = Append(queue, ProgressEvent(threads[w].path,
                                                      audio_progress_callback(0)))
              /\ threads' = [threads EXCEPT
                   ![w].stages = Append(@, "extract"),
                   ![w].percent = audio_progress_callback(0),
                   ![w].pc = "ensure_ffmpeg"]
         ELSE /\ threads' = [threads EXCEPT
                   ![w] = OnStageError([@ EXCEPT !.stages = Append(@, "extract"),
                                                 !.error = FileNotFound(threads[w].path)],
                                       "extract")]
              /\ UNCHANGED queue
  /\ UNCHANGED pipeFrame

\* ensure_ffmpeg: FFmpeg is there
FfmpegAvailable(w) ==
  /\ threads[w].pc = "ensure_ffmpeg"
  /\ threads' = [threads EXCEPT ![w].pc = "cb20"]
  /\ UNCHANGED <<queue, pipeFrame>>

\* ensure_ffmpeg -> download_ffmpeg lines 129-130
DownloadStart(w) ==
  /\ threads[w].pc = "ensure_ffmpeg"
  /\ EmitProgress(w, audio_progress_callback(0), "download")
  /\ UNCHANGED pipeFrame

\* download_ffmpeg progress_hook
DownloadHook(w) ==
  /\ threads[w].pc = "download"
  /\ \E percentage \in HookPercents :
       /\ percentage >= threads[w].dl
       /\ CanEmit
       /\ queue' = Append(queue, ProgressEvent(threads[w].path,
                                               audio_progress_callback(percentage)))
       /\ threads' = [threads EXCEPT
            ![w].percent = audio_progress_callback(percentage),
            ![w].dl = percentage]
  /\ UNCHANGED pipeFrame

\* download_ffmpeg lines 140-141
DownloadDone(w) ==
  /\ threads[w].pc = "download"
  /\ EmitProgress(w, audio_progress_callback(90), "install")
  /\ UNCHANGED pipeFrame

\* download_ffmpeg lines 175-184: "Installation complete!" is reported, then
\* the executable is looked for; when it is missing extract raises
InstallDone(w) ==
  /\ threads[w].pc = "install"
  /\ CanEmit
  /\ queue' = Append(queue, ProgressEvent(threads[w].path,
                                          audio_progress_callback(100)))
  /\ \E verified \in BOOLEAN :
       threads' = [threads EXCEPT ![w] =
         IF verified
           THEN [@ EXCEPT !.percent = audio_progress_callback(100),
                          !.pc = "cb20", !.dl = 0]
           ELSE OnStageError([@ EXCEPT !.percent = audio_progress_callback(100),
                                       !.error = ExtractionFailed(FfmpegNotAvailable)],
                             "extract")]
  /\ UNCHANGED pipeFrame

\* download_ffmpeg gives False (unsupported platform, download or archive
\* error, failed verification): extract raises RuntimeError
FfmpegUnavailable(w) ==
  /\ threads[w].pc \in {"ensure_ffmpeg", "download", "install"}
  /\ Raise(w, "extract", ExtractionFailed(FfmpegNotAvailable))
  /\ UNCHANGED pipeFrame

\* extract() lines 55-56
ExtractCallback20(w) ==
  /\ threads[w].pc = "cb20"
  /\ EmitProgress(w, audio_progress_callback(20), "cb50")
  /\ UNCHANGED pipeFrame

\* extract() lines 76-77
ExtractCallback50(w) ==
  /\ threads[w].pc = "cb50"
  /\ EmitProgress(w, audio_progress_callback(50), "ffmpeg_run")
  /\ UNCHANGED pipeFrame

\* extract() lines 79-86: ffmpeg.run has returned, the output file exists,
\* retry_count = 0
VerifyEnter(w) ==
  /\ threads[w].pc = "ffmpeg_run"
  /\ threads' = [threads EXCEPT ![w].pc = "verify", ![w].retry_count = 0]
  /\ UNCHANGED <<queue, pipeFrame>>

\* a loop that makes one attempt more
LoopContinuesInclusive(retry_count) == retry_count <= max_retries

\* extract() line 87: while retry_count < max_retries
LoopContinues(retry_count) == retry_count < max_retries

\* extract() lines 88-101, one pass of the loop: the file has a size and can
\* be read (break), or it is empty or getsize/open/read raises (the
\* exception is logged), and then sleep(1) and retry_count += 1
VerifyAttempt(w) ==
  /\ threads[w].pc = "verify"
  /\ LoopContinues(threads[w].retry_count)
  /\ \E outcome \in {"readable", "empty", "error"} :
       threads' = [threads EXCEPT ![w] =
         IF outcome = "readable"
           THEN [@ EXCEPT !.pc = "return", !.retry_count = 0]
           ELSE [@ EXCEPT !.retry_count = @ + 1]]
  /\ UNCHANGED <<queue, pipeFrame>>

\* extract() lines 87, 103-104: the loop condition is false; when
\* retry_count == max_retries the warning "File access verification timed
\* out, but continuing anyway" is logged
VerifyExit(w) ==
  /\ threads[w].pc = "verify"
  /\ ~LoopContinues(threads[w].retry_count)
  /\ threads' = [threads EXCEPT
       ![w].pc = IF threads[w].retry_count = max_retries
                   THEN "warned" ELSE "return",
       ![w].retry_count = 0]
  /\ UNCHANGED <<queue, pipeFrame>>

\* extract() lines 106-107: the path is returned
VerifyReturn(w) ==
  /\ threads[w].pc \in {"return", "warned"}
  /\ threads' = [threads EXCEPT ![w].pc = "emit30", ![w].audio = TRUE]
  /\ UNCHANGED <<queue, pipeFrame>>

\* extract() lines 79-107 as one step: ffmpeg.run has returned, the output
\* file exists, the verification loop has run and the path is returned.
\* The loop reads the file and sleeps, it publishes nothing and no other
\* thread sees it; SpecExtract takes it pass by pass.
ExtractReturn(w) ==
  /\ threads[w].pc = "ffmpeg_run"
  /\ threads' = [threads EXCEPT ![w].pc = "emit30", ![w].audio = TRUE]
  /\ UNCHANGED <<queue, pipeFrame>>

\* extract() lines 79-82, 109-116: ffmpeg.Error or no output file
ExtractRaise(w) ==
  /\ threads[w].pc = "ffmpeg_run"
  /\ \E message \in {FfmpegError(Stderr), ExtractionFailed(OutputNotCreated)} :
       Raise(w, "extract", message)
  /\ UNCHANGED pipeFrame

\* run() line 69
RunEmit30(w) ==
  /\ threads[w].pc = "emit30"
  /\ EmitProgress(w, 30, "call_transcribe")
  /\ UNCHANGED pipeFrame

\* what WhisperTranscriber.transcribe returns for the audio of a video: the
\* segments that Whisper found; video "p" has no speech
transcribe(video_path) ==
  IF video_path = "p" THEN << >> ELSE << Seg(0, 1, <<"a">>) >>

\* run() line 70: the call passes more positional arguments than
\* transcribe_audio takes, Python raises TypeError before the body runs
CallTranscribe(w) ==
  /\ threads[w].pc = "call_transcribe"
  /\ threads' = [threads EXCEPT ![w] =
       IF transcribe_audio_args > transcribe_audio_params
         THEN OnStageError([@ EXCEPT !.stages = Append(@, "transcribe"),
                                     !.error = TooManyArguments], "transcribe")
         ELSE [@ EXCEPT !.stages = Append(@, "transcribe"), !.pc = "transcribe"]]
  /\ UNCHANGED <<queue, pipeFrame>>

\* a handler that reports that the run failed and not why
ExceptMessageWithoutCause(t) == <<"Transcription failed">>

\* run() line 83: f"Transcription failed: {str(e)}"
ExceptMessage(t) == <<"Transcription failed: ">> \o t.error

\* a handler that reports the failed run as a success
ExceptEventsAsSuccess(t) == << CompletedEvent(t.path, TRUE, ExceptMessage(t)) >>

\* a handler that only logs
ExceptEventsNone(t) == << >>

\* run() lines 81-83: what the except handler emits
ExceptEvents(t) == << CompletedEvent(t.path, FALSE, ExceptMessage(t)) >>

\* run() lines 81-83, then run() returns and the exception is gone
RunExcept(w) ==
  /\ threads[w].pc = "except"
  /\ CanEmit
  /\ LET evs == ExceptEvents(threads[w]) IN
       /\ queue' = queue \o evs
       /\ threads' = [threads EXCEPT
            ![w].pc = "done",
            ![w].completions = @ + Len(evs),
            ![w].result = IF evs = << >> THEN @
                          ELSE IF evs[1].success THEN "success" ELSE "failure",
            ![w].error = << >>]
  /\ UNCHANGED pipeFrame

\* a start_transcription without the test of self.workers
AlreadyRegisteredNever(p) == FALSE

\* start_transcription line 464: path in self.workers
AlreadyRegistered(p) == workers[p] # 0

\* the paths of S as a sequence, in the order of the loop
RECURSIVE InOrder(_)
InOrder(S) ==
  IF S = {} THEN << >>
  ELSE LET p == CHOOSE x \in S : TRUE IN <<p>> \o InOrder(S \ {p})

\* start_transcription
StartTranscription ==
  /\ video_tasks # {}
  /\ LET skipped == { p \in video_tasks : AlreadyRegistered(p) }
         cached == { p \in video_tasks \ skipped : is_video_indexed(p) }
         started == InOrder(video_tasks \ (skipped \cup cached))
         idOf(p) == Len(threads) + CHOOSE i \in 1..Len(started) : started[i] = p
     IN /\ Len(threads) + Len(started) <= MaxWorkers
        /\ progress' = [p \in Paths |-> IF p \in cached THEN 100 ELSE progress[p]]
        /\ threads' = threads \o [i \in 1..Len(started) |-> NewThread(started[i])]
        /\ workers' = [p \in Paths |->
                         IF \E i \in 1..Len(started) : started[i] = p
                           THEN idOf(p) ELSE workers[p]]
        /\ lastStart' = [started |-> { started[i] : i \in 1..Len(started) },
                         skipped |-> skipped, cached |-> cached]
  /\ UNCHANGED <<storeVars, video_tasks, queue, video_cache>>

\* add_videos
AddVideos(files) ==
  /\ ~(files \subseteq video_tasks)
  /\ video_tasks' = video_tasks \cup files
  /\ progress' = [p \in Paths |-> IF p \in files \ video_tasks THEN 0 ELSE progress[p]]
  /\ UNCHANGED <<storeVars, workers, threads, queue, lastStart, video_cache>>

\* controller.get_transcription_segments(p): the possible results, each with
\* the cache it leaves.  A path in the cache is answered from it; otherwise
\* get_all_segments is asked and a non-empty answer is cached.
get_transcription_segments(p) ==
  IF video_cache[p].cached
    THEN { [res |-> video_cache[p].segments, cache |-> video_cache] }
    ELSE { IF segs # << >>
             THEN [res |-> segs,
                   cache |-> [video_cache EXCEPT
                                ![p] = [cached |-> TRUE, segments |-> segs]]]
             ELSE [res |-> << >>, cache |-> video_cache] :
           segs \in get_all_segments(p) }

\* queue_item_clicked: the segments of a queued video are asked for; a
\* click that leaves the cache as it is is a stuttering step
queue_item_clicked(p) ==
  /\ p \in video_tasks
  /\ \E r \in get_transcription_segments(p) : video_cache' = r.cache
  /\ video_cache' # video_cache
  /\ UNCHANGED <<storeVars, video_tasks, progress, workers, threads, queue,
                 lastStart>>

\* add_processed_videos: a chosen file that is not queued and has segments
\* is queued with progress 100; a call that adds nothing and caches nothing
\* is a stuttering step
AddProcessedVideos(files) ==
  /\ files # {}
  /\ \E rs \in [files -> UNION { get_transcription_segments(p) : p \in files }] :
       /\ \A p \in files : rs[p] \in get_transcription_segments(p)
       /\ LET asked == files \ video_tasks
               added == { p \in asked : rs[p].res # << >> }
          IN /\ video_tasks' = video_tasks \cup added
             /\ progress' = [p \in Paths |-> IF p \in added THEN 100 ELSE progress[p]]
             /\ video_cache' = [p \in Paths |->
                                 IF p \in asked THEN rs[p].cache[p] ELSE video_cache[p]]
  /\ <<video_tasks, video_cache>>' # <<video_tasks, video_cache>>
  /\ UNCHANGED <<storeVars, workers, threads, queue, lastStart>>

\* update_task_progress
update_task_progress(ev) ==
  /\ progress' = [progress EXCEPT ![ev.path] =
                    IF ev.path \in video_tasks THEN ev.percent ELSE @]
  /\ UNCHANGED workers

\* a task_finished that leaves the worker registered
task_finished_keeps_worker(ev) ==
  /\ progress' = [progress EXCEPT ![ev.path] =
                    IF ev.path \in video_tasks /\ ev.success THEN 100 ELSE @]
  /\ UNCHANGED workers

\* task_finished
task_finished(ev) ==
  /\ progress' = [progress EXCEPT ![ev.path] =
                    IF ev.path \in video_tasks /\ ev.success THEN 100 ELSE @]
  /\ workers' = [workers EXCEPT ![ev.path] = 0]

\* the GUI thread takes the oldest posted signal and runs its slot
Deliver ==
  /\ queue # << >>
  /\ queue' = Tail(queue)
  /\ IF Head(queue).kind = "progress_updated"
       THEN update_task_progress(Head(queue))
       ELSE task_finished(Head(queue))
  /\ UNCHANGED <<storeVars, video_tasks, threads, lastStart, video_cache>>

EmptyDB ==
  [videos |-> {}, segments |-> {}, fts |-> {},
   seq |-> [videos |-> 0, segments |-> 0]]

\* the database file found at start-up: empty, or with "q" indexed by an
\* earlier session, without segments or with one
InitPipeline ==
  /\ \E db \in {EmptyDB}
         \cup { InsertTxn(EmptyDB, "q", segs).db :
                  segs \in { << >>, << Seg(0, 1, <<"a">>) >> } } :
       /\ videos = db.videos
       /\ segments = db.segments
       /\ segments_fts = db.fts
       /\ sqlite_sequence = db.seq
  /\ call = Idle
  /\ ret = NoRet
  /\ seen = NoSeen
  /\ video_tasks = {}
  /\ progress = [p \in Paths |-> 0]
  /\ workers = [p \in Paths |-> 0]
  /\ threads = << >>
  /\ queue = << >>
  /\ lastStart = [started |-> {}, skipped |-> {}, cached |-> {}]
  /\ video_cache = [p \in Paths |-> NotCached]

NextPipeline ==
  \/ \E files \in SUBSET Paths : AddVideos(files)
  \/ \E files \in SUBSET Paths : AddProcessedVideos(files)
  \/ \E p \in Paths : queue_item_clicked(p)
  \/ StartTranscription
  \/ Deliver
  \/ \E w \in Workers : RunEmit10(w)
  \/ \E w \in Workers : ExtractEnter(w)
  \/ \E w \in Workers : FfmpegAvailable(w)
  \/ \E w \in Workers : DownloadStart(w)
  \/ \E w \in Workers : DownloadHook(w)
  \/ \E w \in Workers : DownloadDone(w)
  \/ \E w \in Workers : InstallDone(w)
  \/ \E w \in Workers : FfmpegUnavailable(w)
  \/ \E w \in Workers : ExtractCallback20(w)
  \/ \E w \in Workers : ExtractCallback50(w)
  \/ \E w \in Workers : ExtractReturn(w)
  \/ \E w \in Workers : ExtractRaise(w)
  \/ \E w \in Workers : RunEmit30(w)
  \/ \E w \in Workers : CallTranscribe(w)
  \/ \E w \in Workers : RunExcept(w)

SpecPipeline == InitPipeline /\ [][NextPipeline]_vars

\* a step of worker thread w: run() and what it calls
WorkerStep(w) ==
  /\ w \in Workers
  /\ \/ RunEmit10(w)
     \/ ExtractEnter(w)
     \/ FfmpegAvailable(w)
     \/ DownloadStart(w)
     \/ DownloadHook(w)
     \/ DownloadDone(w)
     \/ InstallDone(w)
     \/ FfmpegUnavailable(w)
     \/ ExtractCallback20(w)
     \/ ExtractCallback50(w)
     \/ ExtractReturn(w)
     \/ ExtractRaise(w)
     \/ RunEmit30(w)
     \/ CallTranscribe(w)
     \/ RunExcept(w)

\* a started QThread keeps running until run() returns, and the event loop
\* of the GUI thread keeps delivering the queued signals
SpecPipelineFair ==
  /\ SpecPipeline
  /\ WF_vars(Deliver)
  /\ \A w \in 1..MaxWorkers : WF_vars(WorkerStep(w))

(***************************************************************************)
(* One video at a time, with the file-verification loop of extract taken   *)
(* pass by pass.                                                           *)
(***************************************************************************)
\* a step of worker thread w, the loop of extract() lines 84-104 in passes
ExtractStep(w) ==
  /\ w \in Workers
  /\ \/ RunEmit10(w)
     \/ ExtractEnter(w)
     \/ FfmpegAvailable(w)
     \/ DownloadStart(w)
     \/ DownloadHook(w)
     \/ DownloadDone(w)
     \/ InstallDone(w)
     \/ FfmpegUnavailable(w)
     \/ ExtractCallback20(w)
     \/ ExtractCallback50(w)
     \/ VerifyEnter(w)
     \/ VerifyAttempt(w)
     \/ VerifyExit(w)
     \/ VerifyReturn(w)
     \/ ExtractRaise(w)
     \/ RunEmit30(w)
     \/ CallTranscribe(w)
     \/ RunExcept(w)

NextExtract ==
  \/ AddVideos({"p"})
  \/ StartTranscription
  \/ Deliver
  \/ \E w \in Workers : RunEmit10(w)
  \/ \E w \in Workers : ExtractEnter(w)
  \/ \E w \in Workers : FfmpegAvailable(w)
  \/ \E w \in Workers : DownloadStart(w)
  \/ \E w \in Workers : DownloadHook(w)
  \/ \E w \in Workers : DownloadDone(w)
  \/ \E w \in Workers : InstallDone(w)
  \/ \E w \in Workers : FfmpegUnavailable(w)
  \/ \E w \in Workers : ExtractCallback20(w)
  \/ \E w \in Workers : ExtractCallback50(w)
  \/ \E w \in Workers : VerifyEnter(w)
  \/ \E w \in Workers : VerifyAttempt(w)
  \/ \E w \in Workers : VerifyExit(w)
  \/ \E w \in Workers : VerifyReturn(w)
  \/ \E w \in Workers : ExtractRaise(w)
  \/ \E w \in Workers : RunEmit30(w)
  \/ \E w \in Workers : CallTranscribe(w)
  \/ \E w \in Workers : RunExcept(w)

SpecExtract == InitPipeline /\ [][NextExtract]_vars

\* a started QThread keeps running until run() returns, and the event loop
\* of the GUI thread keeps delivering the queued signals
SpecExtractFair ==
  /\ SpecExtract
  /\ WF_vars(Deliver)
  /\ \A w \in 1..MaxWorkers : WF_vars(ExtractStep(w))

(***************************************************************************)
(* The controller and its store (core/controller.py): index_segments and   *)
(* get_transcription_segments go through video_cache, index_video and      *)
(* remove_video_index are also called on controller.indexer directly.      *)
(***************************************************************************)
\* segment lists handed to index_segments and index_video: none, one
\* segment, two segments with the later one first, one with a blank text
CacheSegLists ==
  { << >>,
    << Seg(0, 1, <<"a">>) >>,
    << Seg(1, 2, <<"a">>), Seg(0, 1, <<"b">>) >>,
    << Seg(0, 2, <<" ">>) >> }

\* controller.index_segments(segs, p): index_video, whose remove and insert
\* commit one after the other, and then the segments as they were handed
\* in go to the cache; when index_video raises the cache stays as it is
index_segments(p, segs) ==
  /\ call.pc = "idle"
  /\ sqlite_sequence.videos < MaxVideoId
  /\ \E removeError, insertError \in BOOLEAN :
       LET removed == IF removeError THEN DB ELSE RemoveTxn(DB, p)
           r == InsertTxn(removed, p, segs)
           ok == r.ok /\ ~insertError
       IN /\ SetDB(IF ok THEN r.db ELSE removed)
          /\ video_cache' =
               IF ok THEN [video_cache EXCEPT
                             ![p] = [cached |-> TRUE, segments |-> segs]]
                     ELSE video_cache
          /\ ret' = [op |-> "index_segments", path |-> p, ok |-> ok]
  /\ seen' = NoSeen
  /\ UNCHANGED <<call, video_tasks, progress, workers, threads, queue, lastStart>>

\* controller.get_transcription_segments(p) is called and returns
GetTranscriptionSegments(p) ==
  /\ \E r \in get_transcription_segments(p) :
       /\ video_cache' = r.cache
       /\ ret' = [op |-> "get_transcription_segments", path |-> p,
                  res |-> r.res]
  /\ seen' = NoSeen
  /\ UNCHANGED <<videos, segments, segments_fts, sqlite_sequence, call,
                 video_tasks, progress, workers, threads, queue, lastStart>>

NextController ==
  \/ \E p \in Paths, segs \in CacheSegLists : index_segments(p, segs)
  \/ \E p \in Paths : GetTranscriptionSegments(p)
  \/ \E p \in Paths, segs \in CacheSegLists : IndexVideoCall(p, segs)
  \/ IndexVideoRemove
  \/ IndexVideoInsert
  \/ \E p \in Paths : RemoveVideoIndex(p)

SpecController == InitStore /\ [][NextController]_vars

(***************************************************************************)
(* Subtitle shaping (modules/subtitler.py): merge_short_segments,          *)
(* split_long_segments and optimize_subtitles are functions of their       *)
(* arguments.  Times are in tenths of a second.  The times that            *)
(* split_long_segments computes are kept as fractions, because it divides  *)
(* a duration by the number of lines.                                      *)
(***************************************************************************)
\* default of min_duration, 1.0 s
min_duration == 10

\* default of max_chars of merge_short_segments
merge_max_chars == 100

\* the literal 1.0 s of the gap test
max_gap == 10

\* default of max_chars of split_long_segments
split_max_chars == 80

\* default of max_duration, 6.0 s
max_duration == 60

Hi == <<"H", "i">>
There == <<"t", "h", "e", "r", "e">>

\* the segments of a transcription follow each other in time and their
\* texts are stripped (transcriber.py line 211): items give the gap before
\* a segment, its duration and its text
RECURSIVE Timeline(_, _, _)
Timeline(items, t, first) ==
  IF items = << >> THEN << >>
  ELSE LET start == IF first THEN 0 ELSE t + Head(items).gap
           end == start + Head(items).dur
       IN << Seg(start, end, Head(items).text) >>
            \o Timeline(Tail(items), end, FALSE)

Timelines(Items) ==
  { Timeline(items, 0, TRUE) :
      items \in UNION { [1..n -> Items] : n \in 0..MaxShapeSegs } }

\* durations below and at min_duration, gaps below, at and above 1.0 s
MergeInputs ==
  Timelines([gap : {1, 10, 11}, dur : {4, 10}, text : {Hi, There}])

\* durations below and above max_duration; texts without a word, of one
\* word, of several words, and with two spaces between words
SplitInputs ==
  Timelines([gap : {1}, dur : {6, 66},
             text : { << >>, Hi, Hi \o <<" ">> \o There,
                      <<"a", " ", "b", " ", "c">>,
                      <<"a", " ", " ", "b", " ", "c">> }])

\* two words of 41 characters: a text longer than the default max_chars of
\* split_long_segments
LongText == [i \in 1..83 |-> IF i = 42 THEN " " ELSE "a"]

\* ordered by start time
OrderedByStart(segs) ==
  \A i \in 1..(Len(segs) - 1) : segs[i].start <= segs[i + 1].start

\* segments for optimize_subtitles: a segment may start before the one
\* before it has ended, durations are below min_duration and above
\* max_duration, and a text is short or longer than 80 characters
OptimizeInputs ==
  { segs \in Timelines([gap : {-60, 0, 11}, dur : {4, 70},
                         text : {Hi, LongText}]) : OrderedByStart(segs) }

\* a merge test on the duration of the line built so far
ShouldMergeCurrentDuration(current_segment, segment, min_d, max_c) ==
  /\ current_segment.end - current_segment.start < min_d
  /\ Len(current_segment.text) + Len(segment.text) <= max_c
  /\ segment.start - current_segment.end <= max_gap

\* merge_short_segments lines 146-148: the elif condition
ShouldMerge(current_segment, segment, min_d, max_c) ==
  /\ segment.end - segment.start < min_d
  /\ Len(current_segment.text) + Len(segment.text) <= max_c
  /\ segment.start - current_segment.end <= max_gap

\* merge_short_segments lines 140-161: the loop after its first segment
RECURSIVE MergeLoop(_, _, _, _, _)
MergeLoop(rest, current_segment, merged, min_d, max_c) ==
  IF rest = << >> THEN Append(merged, current_segment)
  ELSE IF ShouldMerge(current_segment, Head(rest), min_d, max_c)
    THEN MergeLoop(Tail(rest),
                   [current_segment EXCEPT
                      !.end = Head(rest).end,
                      !.text = @ \o <<" ">> \o Head(rest).text],
                   merged, min_d, max_c)
    ELSE MergeLoop(Tail(rest), Head(rest), Append(merged, current_segment),
                   min_d, max_c)

merge_short_segments(segs, min_d, max_c) ==
  IF segs = << >> THEN segs
  ELSE MergeLoop(Tail(segs), Head(segs), << >>, min_d, max_c)

\* the first word of a text that starts with one
FirstWord(t) ==
  LET stops == { i \in 1..Len(t) : IsSpace(t[i]) }
      n == IF stops = {} THEN Len(t) + 1
           ELSE CHOOSE i \in stops : \A j \in stops : i <= j
  IN SubSeq(t, 1, n - 1)

\* str.split()
RECURSIVE Words(_)
Words(t) ==
  LET s == lstrip(t) IN
    IF s = << >> THEN << >>
    ELSE << FirstWord(s) >> \o Words(SubSeq(s, Len(FirstWord(s)) + 1, Len(s)))

\* ' '.join(words)
RECURSIVE JoinWords(_)
JoinWords(words) ==
  IF words = << >> THEN << >>
  ELSE IF Len(words) = 1 THEN words[1]
  ELSE words[1] \o <<" ">> \o JoinWords(Tail(words))

\* split_long_segments lines 189-205: the loop over the words
RECURSIVE WrapLoop(_, _, _, _)
WrapLoop(words, current_line, lines, max_c) ==
  IF words = << >>
    THEN IF current_line # << >> THEN Append(lines, JoinWords(current_line))
         ELSE lines
  ELSE IF Len(JoinWords(Append(current_line, Head(words)))) <= max_c
    THEN WrapLoop(Tail(words), Append(current_line, Head(words)), lines, max_c)
  ELSE IF current_line # << >>
    THEN WrapLoop(Tail(words), << Head(words) >>,
                  Append(lines, JoinWords(current_line)), max_c)
  ELSE WrapLoop(Tail(words), << >>, Append(lines, Head(words)), max_c)

\* a wrap that puts every word on a line of its own
WrapOneWordPerLine(words, max_c) == words

Wrap(words, max_c) == WrapLoop(words, << >>, << >>, max_c)

Frac(n, d) == [num |-> n, den |-> d]

\* a segment that split_long_segments hands on as it is
Kept(segment) ==
  [start |-> Frac(segment.start, 1), end |-> Frac(segment.end, 1),
   text |-> segment.text]

\* lines that take their share of the duration from the end of the segment
LineSegmentFromEnd(segment, lines, i) ==
  LET n == Len(lines)
      duration == segment.end - segment.start
  IN [start |-> Frac(segment.start * n + (n - i) * duration, n),
      end |-> Frac(segment.start * n + (n - i + 1) * duration, n),
      text |-> lines[i]]

\* split_long_segments lines 209-218: the segment of line i (from 1), with
\* line_duration = duration / len(lines)
LineSegment(segment, lines, i) ==
  LET n == Len(lines)
      duration == segment.end - segment.start
  IN [start |-> Frac(segment.start * n + (i - 1) * duration, n),
      end |-> Frac(segment.start * n + i * duration, n),
      text |-> lines[i]]

\* split_long_segments lines 179-220: the body of the loop over the segments
SplitOne(segment, max_c, max_d) ==
  LET duration == segment.end - segment.start IN
    IF Len(segment.text) <= max_c /\ duration <= max_d
      THEN << Kept(segment) >>
      ELSE LET lines == Wrap(Words(segment.text), max_c)
           IN IF lines # << >>
                THEN [i \in 1..Len(lines) |-> LineSegment(segment, lines, i)]
                ELSE << Kept(segment) >>

RECURSIVE split_long_segments(_, _, _)
split_long_segments(segs, max_c, max_d) ==
  IF segs = << >> THEN << >>
  ELSE SplitOne(Head(segs), max_c, max_d)
         \o split_long_segments(Tail(segs), max_c, max_d)

optimize_subtitles(segs) ==
  split_long_segments(merge_short_segments(segs, min_duration, merge_max_chars),
                      split_max_chars, max_duration)

shapeFrame ==
  <<videos, segments, segments_fts, sqlite_sequence, call, seen, pipeVars>>

\* the functions keep no state: a behaviour makes one call
MergeShortSegments(segs, max_c) ==
  /\ ret = NoRet
  /\ ret' = [op |-> "merge_short_segments", segments |-> segs,
             min_duration |-> min_duration, max_chars |-> max_c,
             result |-> merge_short_segments(segs, min_duration, max_c)]
  /\ UNCHANGED shapeFrame

SplitLongSegments(segs, max_c) ==
  /\ ret = NoRet
  /\ ret' = [op |-> "split_long_segments", segments |-> segs,
             max_chars |-> max_c, max_duration |-> max_duration,
             result |-> split_long_segments(segs, max_c, max_duration)]
  /\ UNCHANGED shapeFrame

OptimizeSubtitles(segs) ==
  /\ ret = NoRet
  /\ ret' = [op |-> "optimize_subtitles", segments |-> segs,
             result |-> optimize_subtitles(segs)]
  /\ UNCHANGED shapeFrame

NextShape ==
  \/ \E segs \in MergeInputs, max_c \in {SmallMergeChars, merge_max_chars} :
       MergeShortSegments(segs, max_c)
  \/ \E segs \in SplitInputs, max_c \in {SmallSplitChars, split_max_chars} :
       SplitLongSegments(segs, max_c)
  \/ \E segs \in MergeInputs \cup SplitInputs \cup OptimizeInputs :
       OptimizeSubtitles(segs)

SpecShape == InitStore /\ [][NextShape]_vars

(***************************************************************************)
(* What the specification expects of the store.                            *)
(***************************************************************************)
NonEmptyAfterTrim(seg) == strip(seg.text) # <<>>

\* the sequences that hold exactly the non-empty segments of segs, each once,
\* in non-decreasing order of start
ExpectedSegments(segs) ==
  LET kept == SelectSeq(segs, NonEmptyAfterTrim)
      perms == { o \in Orderings(1..Len(kept)) :
                   \A i \in 1..Len(o) - 1 : kept[o[i]].start <= kept[o[i + 1]].start }
  IN { [i \in 1..Len(kept) |-> kept[o[i]]] : o \in perms }

(***************************************************************************)
(* C1: while index_video(p, S2) replaces an indexed video p, a concurrent  *)
(* reader of p sees the old record with all of S1 or the new record with   *)
(* all of S2, never p as not indexed or with other segments.               *)
(***************************************************************************)
C1_ReaderSeesOldOrNew ==
  (call.pc # "idle" /\ call.wasIndexed /\ seen.op # "none" /\ seen.path = call.path)
    => IF seen.op = "is_video_indexed"
         THEN seen.res
         ELSE seen.res \in call.old \cup ExpectedSegments(call.segs)

(***************************************************************************)
(* C2: in every committed state segments_fts holds exactly one entry per   *)
(* row of segments, with the same id and text.                             *)
(***************************************************************************)
C2_FtsMatchesSegments ==
  /\ segments_fts = FtsEntries(segments)
  /\ \A s, t \in segments : s.id = t.id => s = t
  /\ \A e, f \in segments_fts : e.rowid = f.rowid => e = f

\* a video was removed while rows of another video stay indexed
C2_Witness ==
  /\ ret.op = "remove_video_index" /\ ret.wasIndexed
  /\ segments # {}
  /\ Cardinality(segments) < sqlite_sequence.segments

(***************************************************************************)
(* C8: when index_video(p, S2) raises for a video p that was indexed with  *)
(* S1, the store still holds the record of p and exactly S1.               *)
(***************************************************************************)
C8_FailedReindexKeepsPrior ==
  (ret.op = "index_video" /\ ~ret.ok /\ ret.wasIndexed)
    => /\ is_video_indexed(ret.path)
       /\ get_all_segments(ret.path) = ret.old

(***************************************************************************)
(* C9: after index_video(p, S) has returned, get_all_segments(p) gives     *)
(* exactly the segments of S with non-empty trimmed text, unchanged, in    *)
(* order of start time.                                                    *)
(***************************************************************************)
C9_RoundTrip ==
  (ret.op = "index_video" /\ ret.ok)
    => /\ get_all_segments(ret.path) # {}
       /\ \A r \in get_all_segments(ret.path) : r \in ExpectedSegments(ret.segs)

\* a list given out of start order, with one whitespace-only text, was stored
C9_Witness ==
  /\ ret.op = "index_video" /\ ret.ok
  /\ Len(ret.segs) = 2
  /\ \/ (ret.segs[1].start > ret.segs[2].start /\ \A i \in 1..2 : NonEmptyAfterTrim(ret.segs[i]))
     \/ (NonEmptyAfterTrim(ret.segs[1]) /\ ~NonEmptyAfterTrim(ret.segs[2]))
  /\ \E r \in get_all_segments(ret.path) : Len(r) >= 1

(***************************************************************************)
(* C10: index_video(p, S) called twice in a row, S without empty texts,    *)
(* leaves one video record and |S| segments for p, and the counts of       *)
(* get_database_stats equal those after the first call.                    *)
(***************************************************************************)
C10_Idempotent ==
  (ret.op = "index_video" /\ ret.ok /\ ret.rep
     /\ \A i \in 1..Len(ret.segs) : NonEmptyAfterTrim(ret.segs[i]))
    => /\ Cardinality({ v \in videos : v.path = ret.path }) = 1
       /\ Cardinality(RowsOf(DB, ret.path)) = Len(ret.segs)
       /\ get_database_stats = ret.stats0

\* the second of two equal calls has returned, with two segments
C10_Witness ==
  /\ ret.op = "index_video" /\ ret.ok /\ ret.rep
  /\ Len(ret.segs) = 2
  /\ \A i \in 1..Len(ret.segs) : NonEmptyAfterTrim(ret.segs[i])

HasSpace(t) == \E i \in 1..Len(t) : t[i] = " "

\* the text holds the tokens of the query: as a phrase when the query has
\* several tokens, the single token as a prefix
MatchesQuery(text, query) ==
  LET q == strip(query)
  IN PhraseCount(text, [ok |-> TRUE, tokens |-> Tokens(q), prefix |-> ~HasSpace(q)]) > 0

SameRank(r, s) == ~Better(r, s) /\ ~Better(s, r)

(***************************************************************************)
(* C13: search(p, query) on an indexed video gives a result for every      *)
(* query and never fails: an empty or whitespace-only query gives the      *)
(* empty result, and a query with characters of the FTS5 query syntax is   *)
(* escaped and matched, with one token as with several.                    *)
(***************************************************************************)
C13_SearchNeverFails ==
  (seen.op = "search" /\ seen.video_id # NULLV)
    => /\ seen.ok
       /\ strip(seen.query) = << >> => seen.res = << >>
       /\ \A i \in 1..Len(seen.res) : MatchesQuery(seen.res[i].text, seen.query)

(***************************************************************************)
(* C14: search(p, query, limit) gives only segments of video p, at most    *)
(* limit of them, the more relevant first, and of two hits of equal        *)
(* relevance the one that starts earlier first.                            *)
(***************************************************************************)
C14_ScopedLimitedRanked ==
  (seen.op = "search" /\ seen.ok)
    => /\ \A i \in 1..Len(seen.res) : seen.res[i].video_id = seen.video_id
       /\ Len(seen.res) <= seen.limit
       /\ \A i, j \in 1..Len(seen.res) :
            i < j => /\ ~Better(seen.res[j].rank, seen.res[i].rank)
                     /\ SameRank(seen.res[i].rank, seen.res[j].rank)
                          => seen.res[i].start <= seen.res[j].start

(***************************************************************************)
(* What the specification expects of a run.                                *)
(***************************************************************************)
Invoked(t, stage) == \E i \in 1..Len(t.stages) : t.stages[i] = stage

(***************************************************************************)
(* C3: in a run the stages are invoked in the order extract, transcribe,   *)
(* subtitles, index, each only after the one before has returned           *)
(* successfully, none twice, and two stages of one video are never active  *)
(* together.                                                               *)
(***************************************************************************)
C3_StagesInOrder ==
  /\ \A w \in Workers :
       /\ IsPrefix(threads[w].stages, StageOrder)
       /\ Invoked(threads[w], "transcribe")
            => threads[w].audio /\ threads[w].raised # "extract"
       /\ InExtract(threads[w])
            => threads[w].stages = <<"extract">> /\ ~threads[w].audio
  /\ \A w1, w2 \in Workers :
       (w1 # w2 /\ threads[w1].path = threads[w2].path)
         => ~(InExtract(threads[w1]) /\ InExtract(threads[w2]))

\* extraction has returned the audio path and run() has gone on to call
\* transcribe_audio
C3_Witness ==
  \E w \in Workers :
    threads[w].stages = <<"extract", "transcribe">> /\ threads[w].audio

(***************************************************************************)
(* C4: when a stage of a run raises, no later stage of the run is invoked, *)
(* the run ends with a completion event with success = false, index_video  *)
(* is not called and the store holds no segment of the run.                *)
(***************************************************************************)
C4_FailureAbortsRun ==
  \A w \in Workers :
    threads[w].raised # "none"
      => /\ threads[w].stages # << >>
         /\ threads[w].stages[Len(threads[w].stages)] = threads[w].raised
         /\ ~Invoked(threads[w], "index")
         /\ threads[w].pc \in {"except", "done"}
         /\ threads[w].pc = "done"
              => threads[w].result = "failure" /\ threads[w].completions = 1
         /\ RowsOf(DB, threads[w].path) = {}

\* a run whose extraction raised has ended
C4_Witness ==
  \E w \in Workers :
    /\ threads[w].raised = "extract"
    /\ threads[w].pc = "done"
    /\ threads[w].result = "failure"

(***************************************************************************)
(* C5: the percent values of the progress events of a run never decrease.  *)
(***************************************************************************)
C5_ProgressNeverDecreases ==
  [][\A w \in Workers : threads'[w].percent >= threads[w].percent]_vars

(***************************************************************************)
(* C6: a run emits exactly one completion event, and no progress event of  *)
(* it follows that completion event.                                       *)
(***************************************************************************)
C6_OneCompletionLast ==
  /\ [](\A w \in Workers :
          /\ threads[w].completions <= 1
          /\ (threads[w].pc = "done") <=> (threads[w].completions = 1))
  /\ [][/\ \A w \in Workers :
             threads[w].completions > 0 => threads'[w] = threads[w]
        /\ (Len(queue') > Len(queue)
              /\ queue'[Len(queue')].kind = "progress_updated")
             => \E w \in Workers :
                  /\ threads[w].path = queue'[Len(queue')].path
                  /\ Running(threads[w])
                  /\ threads[w].completions = 0
                  /\ threads'[w].completions = 0]_vars

\* a run has reported progress and then its one completion event
C6_Witness ==
  \E w \in Workers :
    /\ threads[w].pc = "done"
    /\ threads[w].completions = 1
    /\ threads[w].percent >= 10

(***************************************************************************)
(* C7: at most one worker runs for a path at any moment; a                 *)
(* start_transcription that finds a worker registered for the path starts  *)
(* no second one.                                                          *)
(***************************************************************************)
C7_OneWorkerPerPath ==
  /\ \A w1, w2 \in Workers :
       (w1 # w2 /\ threads[w1].path = threads[w2].path)
         => ~(Running(threads[w1]) /\ Running(threads[w2]))
  /\ \A w \in Workers :
       Running(threads[w]) => workers[threads[w].path] = w

\* start_transcription has just passed over a path whose worker is running,
\* after an earlier worker of that path had finished
C7_Witness ==
  \E p \in lastStart.skipped :
    /\ workers[p] # 0
    /\ Running(threads[workers[p]])
    /\ \E w \in Workers : w # workers[p] /\ threads[w].path = p /\ ~Running(threads[w])

C16_IndexedShortCircuit ==
  [][StartTranscription
       => \A p \in video_tasks :
            (\E v \in videos : v.path = p)
              => /\ progress'[p] = 100
                 /\ workers'[p] = workers[p]
                 /\ \A w \in 1..Len(threads') :
                      threads'[w].path = p
                        => w \in Workers /\ threads'[w] = threads[w]]_vars

\* start_transcription has passed over the indexed "q" and started a worker
\* for another path
C16_Witness ==
  /\ "q" \in lastStart.cached
  /\ lastStart.started # {}
  /\ \E v \in videos : v.path = "q"
  /\ progress["q"] = 100
  /\ workers["q"] = 0
  /\ \A w \in Workers : threads[w].path # "q"

(***************************************************************************)
(* What the specification expects of a re-submission.                      *)
(***************************************************************************)
\* the latest run of p has returned after a failure
EndedFailed(p) ==
  \E w \in Workers :
    /\ threads[w].path = p
    /\ threads[w].pc = "done"
    /\ threads[w].result = "failure"
    /\ \A w2 \in Workers : threads[w2].path = p => w2 <= w

\* p is shown as done and no run of p is going on
EndedDone(p) ==
  /\ progress[p] = 100
  /\ \A w \in Workers : threads[w].path = p => threads[w].pc = "done"

\* the step starts a run of p at its first statement
StartsNewRun(p) ==
  \E w \in (Len(threads) + 1)..Len(threads') :
    /\ threads'[w] = NewThread(p)
    /\ workers'[p] = w

\* the completion event of the latest run of p has been handled
CompletionHandled(p) ==
  \A i \in 1..Len(queue) :
    ~(queue[i].kind = "transcription_completed" /\ queue[i].path = p)

(***************************************************************************)
(* C17: re-submitting a video whose previous run has ended, whether it     *)
(* ended Done or Failed, always starts a new run that begins again at the  *)
(* first stage.                                                            *)
(***************************************************************************)
C17_ResubmitRestarts ==
  [][StartTranscription
       => \A p \in video_tasks :
            (EndedFailed(p) \/ EndedDone(p)) => StartsNewRun(p)]_vars

(***************************************************************************)
(* C17, amended: re-submitting a video whose previous run ended Failed     *)
(* starts a new run that begins again at the first stage, once the         *)
(* completion event of that run has been handled and if the store holds no *)
(* record of the video; re-submitting a video that is Done starts no run   *)
(* and leaves it Done.                                                     *)
(***************************************************************************)
C17_FailedRestartsDoneStays ==
  [][StartTranscription
       => \A p \in video_tasks :
            /\ (EndedFailed(p) /\ CompletionHandled(p)
                   /\ ~\E v \in videos : v.path = p)
                 => StartsNewRun(p)
            /\ EndedDone(p)
                 => /\ ~StartsNewRun(p)
                    /\ Len(threads') > Len(threads)
                         => \A w \in (Len(threads) + 1)..Len(threads') :
                              threads'[w].path # p
                    /\ progress'[p] = 100]_vars

\* one start_transcription has started a second run of "p", whose first run
\* failed, and has passed over the finished "q"
C17_Witness ==
  /\ lastStart.started = {"p"}
  /\ lastStart.cached = {"q"}
  /\ progress["q"] = 100
  /\ \E w1, w2 \in Workers :
       /\ w1 < w2
       /\ threads[w1].path = "p"
       /\ threads[w1].result = "failure"
       /\ threads[w2] = NewThread("p")
       /\ workers["p"] = w2

(***************************************************************************)
(* What the specification expects of the states a caller can observe.      *)
(***************************************************************************)
NoCompletion == [emitted |-> FALSE]

\* the completion event of the latest run of p that has emitted one
CompletionOf(p) ==
  LET ws == { w \in Workers : threads[w].path = p /\ threads[w].completions > 0 }
  IN IF ws = {} THEN NoCompletion
     ELSE LET w == CHOOSE x \in ws : \A y \in ws : y <= x
          IN [emitted |-> TRUE, success |-> threads[w].result = "success"]

\* the queries of an observation: an empty one, a word, and a word with a
\* character of the FTS5 syntax
ObservedQueries == { << >>, <<"a">>, <<"a", "-", "b">> }

\* what the four operations give a caller for p
Observation(p) ==
  [search |-> [x \in ObservedQueries \X Limits |->
                 { [ok |-> r.ok, res |-> r.res] : r \in search(p, x[1], x[2]) }],
   segments |-> { r.res : r \in get_transcription_segments(p) },
   indexed |-> is_video_indexed(p),
   completion |-> CompletionOf(p)]

\* the latest run of p has ended after a stage raised
JobFailed(p) ==
  \E w \in Workers :
    /\ threads[w].path = p
    /\ threads[w].raised # "none"
    /\ threads[w].pc = "done"
    /\ \A w2 \in Workers : threads[w2].path = p => w2 <= w

\* the store holds a record of p, no run of p has failed and a search in p
\* comes back empty
IndexedNoResults(p) ==
  /\ \E v \in videos : v.path = p
  /\ \A w \in Workers : threads[w].path # p
  /\ \E query \in ObservedQueries, limit \in Limits :
       \E r \in search(p, query, limit) : r.ok /\ r.res = << >>

\* no run of p was started and the store holds no record of p
NotProcessed(p) ==
  /\ ~\E v \in videos : v.path = p
  /\ \A w \in Workers : threads[w].path # p

\* the state a caller reads from an observation
Told(obs) ==
  IF obs.completion.emitted /\ ~obs.completion.success THEN "failed"
  ELSE IF obs.indexed THEN "indexed"
  ELSE "not processed"

(***************************************************************************)
(* C18: a caller can always tell apart a video whose job failed, a video   *)
(* that is indexed but yields no results and a video that has not been     *)
(* processed yet: what search, get_transcription_segments,                 *)
(* is_video_indexed and the completion event give for a video in one of    *)
(* these states is never what they give for a video in another one.        *)
(***************************************************************************)
C18_ThreeStatesDistinct ==
  /\ \A p \in Paths :
       /\ JobFailed(p) => Told(Observation(p)) = "failed"
       /\ IndexedNoResults(p) => Told(Observation(p)) = "indexed"
       /\ NotProcessed(p) => Told(Observation(p)) = "not processed"
  /\ \A p1, p2 \in Paths :
       (\/ JobFailed(p1) /\ (IndexedNoResults(p2) \/ NotProcessed(p2))
        \/ IndexedNoResults(p1) /\ NotProcessed(p2))
         => Observation(p1) # Observation(p2)

\* "p" has failed and "q" is indexed without segments: a search for a word
\* and get_transcription_segments give the same for both, is_video_indexed
\* and the completion event do not
C18_Witness ==
  /\ JobFailed("p")
  /\ IndexedNoResults("q")
  /\ \A x \in { << >>, <<"a">> } \X Limits :
       /\ Observation("p").search[x] = Observation("q").search[x]
       /\ Observation("p").search[x] = { [ok |-> TRUE, res |-> << >>] }
  /\ Observation("p").segments = {<< >>}
  /\ Observation("q").segments = {<< >>}
  /\ Observation("q").indexed
  /\ Observation("p").completion.emitted

(***************************************************************************)
(* What the specification expects of merge_short_segments.                 *)
(***************************************************************************)
\* the texts of in[a..b] joined by single spaces
RECURSIVE JoinTexts(_, _, _)
JoinTexts(in, a, b) ==
  IF a = b THEN in[a].text
  ELSE JoinTexts(in, a, b - 1) \o <<" ">> \o in[b].text

\* the line that in[a..b] make when they are combined
LineOf(in, a, b) == Seg(in[a].start, in[b].end, JoinTexts(in, a, b))

\* joined[i] says that in[i+1] is combined with what comes before it:
\* where the line that holds in[i] starts
RunStart(joined, i) ==
  CHOOSE k \in 1..i :
    /\ k = 1 \/ ~joined[k - 1]
    /\ \A m \in k..(i - 1) : joined[m]

\* the lines that the combinations of joined leave
LinesOf(in, joined) ==
  LET ends == { i \in 1..Len(in) : i = Len(in) \/ ~joined[i] }
      nth(k) == CHOOSE e \in ends : Cardinality({ x \in ends : x <= e }) = k
  IN [k \in 1..Cardinality(ends) |-> LineOf(in, RunStart(joined, nth(k)), nth(k))]

\* out is in with a segment combined with what comes before it exactly when
\* Combines holds of the two
IsMergeBy(in, out, min_d, max_c, Combines(_, _, _, _)) ==
  IF in = << >> THEN out = << >>
  ELSE \E joined \in [1..(Len(in) - 1) -> BOOLEAN] :
         /\ \A i \in 1..(Len(in) - 1) :
              joined[i] <=> Combines(LineOf(in, RunStart(joined, i), i),
                                     in[i + 1], min_d, max_c)
         /\ out = LinesOf(in, joined)

\* the first of the two is short
FirstIsShort(first, next, min_d, max_c) ==
  /\ first.end - first.start < min_d
  /\ Len(first.text) + Len(next.text) <= max_c
  /\ next.start - first.end <= max_gap

\* the later of the two is short
LaterIsShort(first, next, min_d, max_c) ==
  /\ next.end - next.start < min_d
  /\ Len(first.text) + Len(next.text) <= max_c
  /\ next.start - first.end <= max_gap

MergeExample == << Seg(0, 4, Hi), Seg(5, 9, There) >>

MergeExampleResult == << Seg(0, 9, Hi \o <<" ">> \o There) >>

ValidPieces(segment, pieces, max_c, max_d) ==
  IF Len(segment.text) > max_c \/ segment.end - segment.start > max_d
    THEN /\ \A i \in 1..Len(pieces) :
              \/ Len(pieces[i].text) <= max_c
              \/ Len(Words(pieces[i].text)) = 1
         /\ \A i \in 1..Len(pieces) :
              pieces[i].text = JoinWords(Words(pieces[i].text))
         /\ Words(JoinWords([i \in 1..Len(pieces) |-> pieces[i].text]))
              = Words(segment.text)
         /\ \A i \in 1..(Len(pieces) - 1) :
              Len(pieces[i].text) + 1 + Len(Words(pieces[i + 1].text)[1]) > max_c
    ELSE pieces = << Kept(segment) >>

\* out is the pieces of the segments of in, in their order
RECURSIVE ValidSplit(_, _, _, _)
ValidSplit(in, out, max_c, max_d) ==
  IF in = << >> THEN out = << >>
  ELSE \E m \in 1..Len(out) :
         /\ ValidPieces(Head(in), SubSeq(out, 1, m), max_c, max_d)
         /\ ValidSplit(Tail(in), SubSeq(out, m + 1, Len(out)), max_c, max_d)

(***************************************************************************)
(* C20: split_long_segments breaks every segment whose text is longer than *)
(* max_chars or whose duration is longer than max_duration into lines by   *)
(* greedy word wrap: every line is at most max_chars long unless it is a   *)
(* single word, no word is broken, and the lines joined by single spaces   *)
(* give back the original words in their order.                            *)
(***************************************************************************)
C20_GreedyWordWrap ==
  ret.op = "split_long_segments"
    => ValidSplit(ret.segments, ret.result, ret.max_chars, ret.max_duration)

\* "Hi there" and "a b c" under a small max_chars: the long word stays
\* whole on its line and "a b" fills a line
C20_Witness ==
  /\ ret.op = "split_long_segments"
  /\ ret.max_chars = SmallSplitChars
  /\ ret.segments = << Seg(0, 6, Hi \o <<" ">> \o There),
                       Seg(7, 13, <<"a", " ", "b", " ", "c">>) >>
  /\ [i \in 1..Len(ret.result) |-> ret.result[i].text]
       = << Hi, There, <<"a", " ", "b">>, <<"c">> >>

(***************************************************************************)
(* What the specification expects of the times of shaped segments.         *)
(***************************************************************************)
FracLeq(a, b) == a.num * b.den <= b.num * a.den

FracLess(a, b) == a.num * b.den < b.num * a.den

\* ordered by start time, each segment with end > start
ValidTimes(segs) ==
  /\ OrderedByStart(segs)
  /\ \A i \in 1..Len(segs) : segs[i].end > segs[i].start

\* no segment starts before the one before it has ended
NonOverlapping(segs) ==
  \A i \in 1..(Len(segs) - 1) : segs[i].end <= segs[i + 1].start

\* the same of an output, whose times are fractions
OutputValidTimes(out) ==
  /\ \A i \in 1..(Len(out) - 1) : FracLeq(out[i].start, out[i + 1].start)
  /\ \A i \in 1..Len(out) : FracLess(out[i].start, out[i].end)

C24_MergedTextFits ==
  ret.op = "merge_short_segments"
    => \A i \in 1..Len(ret.result) :
         (\A j \in 1..Len(ret.segments) : ret.result[i] # ret.segments[j])
           => Len(ret.result[i].text) <= ret.max_chars

(***************************************************************************)
(* C30: every segment in the output of optimize_subtitles lasts at most    *)
(* max_duration (6.0 s), for every input whose texts are not empty.        *)
(***************************************************************************)
C30_DurationBounded ==
  (ret.op = "optimize_subtitles"
     /\ \A j \in 1..Len(ret.segments) : ret.segments[j].text # << >>)
    => \A i \in 1..Len(ret.result) :
         ret.result[i].end.num * ret.result[i].start.den
             - ret.result[i].start.num * ret.result[i].end.den
           <= max_duration * ret.result[i].end.den * ret.result[i].start.den

(***************************************************************************)
(* C22: the job percents of a run                                          *)
(***************************************************************************)
\* the run of thread t has passed index_segments without an exception
IndexReturned(t) == t.stages = StageOrder /\ t.raised = "none"

\* C22: every local value 0..100 is republished by the extraction callback
\* within 10..30 and by the transcription callback within 30..90 (the
\* callbacks are functions of the local value, their ranges are evaluated
\* in the states without a worker); a worker inside the extraction stage
\* has published a percent within 10..30; the percent 100 is published only
\* by a run whose index_segments call has returned, and never by a run that
\* failed
C22_ProgressRanges ==
  /\ threads = << >> =>
       \A p \in 0..100 :
         /\ audio_progress_callback(p) \in 10..30
         /\ progress_callback(p) \in 30..90
  /\ \A w \in Workers :
       /\ InExtract(threads[w]) => threads[w].percent \in 10..30
       /\ threads[w].percent = 100 => IndexReturned(threads[w])
       /\ threads[w].result = "failure" => threads[w].percent # 100
  /\ \A i \in 1..Len(queue) :
       (queue[i].kind = "progress_updated" /\ queue[i].percent = 100)
         => \E w \in Workers :
              /\ threads[w].path = queue[i].path
              /\ IndexReturned(threads[w])

\* a run that failed in the extraction stage after the download hook's 100
\* had been republished as 30
C22_Witness ==
  \E w \in Workers :
    /\ threads[w].result = "failure"
    /\ threads[w].raised = "extract"
    /\ threads[w].percent = audio_progress_callback(100)
    /\ threads[w].percent = 30

(***************************************************************************)
(* C23: a run whose stages would succeed                                   *)
(***************************************************************************)
\* the run of worker w has published 100 and reported success, and its
\* video is indexed
RunSucceeded(w) ==
  /\ w \in Workers
  /\ threads[w].percent = 100
  /\ threads[w].result = "success"
  /\ is_video_indexed(threads[w].path)

\* C23: a run whose extraction has returned the audio path, and whose
\* later stages have nothing to fail on, eventually publishes 100 and a
\* completion with success = TRUE, and its video is indexed then
C23_RunSucceeds ==
  \A w \in 1..MaxWorkers :
    (w \in Workers /\ threads[w].pc = "call_transcribe" /\ threads[w].audio)
      ~> RunSucceeded(w)

(***************************************************************************)
(* C26: the file-verification loop of extract                              *)
(***************************************************************************)
\* C26: the loop makes an attempt, failed or successful, only after fewer
\* than max_retries failed ones, so at most 3; when all 3 have failed the
\* warning is logged and the next step of extract is the return of the audio
\* path, no exception; a worker in the loop eventually gets the path back
C26_VerifyBounded ==
  /\ [](\A w \in Workers : threads[w].retry_count <= max_retries)
  /\ [][\A w \in Workers :
         /\ (/\ threads[w].pc = "verify"
             /\ threads'[w].pc = "verify"
             /\ threads'[w].retry_count # threads[w].retry_count)
              => /\ threads[w].retry_count < max_retries
                 /\ threads'[w].retry_count = threads[w].retry_count + 1
         /\ (threads[w].pc = "verify" /\ threads'[w].pc = "return")
              => threads[w].retry_count < max_retries
         /\ (threads[w].pc = "verify" /\ threads[w].retry_count = max_retries)
              => threads'[w].pc \in {"verify", "warned"}
         /\ (threads[w].pc = "warned" /\ threads'[w].pc # "warned")
              => /\ threads'[w].pc = "emit30"
                 /\ threads'[w].audio
                 /\ threads'[w].raised = "none"]_vars
  /\ \A w \in 1..MaxWorkers :
       (w \in Workers /\ threads[w].pc = "verify")
         ~> (w \in Workers /\ threads[w].pc = "emit30" /\ threads[w].audio)

\* all three attempts have failed, the warning has been logged and the
\* worker is about to get the audio path
C26_Witness ==
  \E w \in Workers : threads[w].pc = "warned"

(***************************************************************************)
(* C25: a transcription without segments                                   *)
(***************************************************************************)
\* the run of thread t is over and had called the transcription stage for
\* an audio that gives no segments
EndedWithoutSegments(t) ==
  /\ t.pc = "done"
  /\ t.stages # << >>
  /\ t.stages[Len(t.stages)] # "extract"
  /\ transcribe(t.path) = << >>

UsesAudio(t) == Running(t) /\ (InExtract(t) \/ t.audio)

\* C27: two runs that are under way at the same time for different videos
\* do not use the same audio file
C27_DistinctAudioPaths ==
  \A w1, w2 \in Workers :
    (/\ threads[w1].path # threads[w2].path
     /\ UsesAudio(threads[w1])
     /\ UsesAudio(threads[w2]))
      => audio_path(threads[w1].path) # audio_path(threads[w2].path)

(***************************************************************************)
(* C28: the cache of the controller and the store                          *)
(***************************************************************************)
\* C28: what controller.get_transcription_segments(p) has returned is what
\* indexer.get_all_segments(p) gives: the same segments in the same order
C28_CacheMatchesStore ==
  (call.pc = "idle" /\ ret.op = "get_transcription_segments")
    => ret.res \in get_all_segments(ret.path)

(***************************************************************************)
(* C29: the frame of index_video and remove_video_index                    *)
(***************************************************************************)
\* the path of the call that changes the database in this step
Touched == IF call.pc # "idle" THEN call.path ELSE ret'.path

\* what search shows of its hits: start, end and text, in the order returned
Shown(results) ==
  { [i \in 1..Len(r.res) |-> Out([start_time |-> r.res[i].start,
                                  end_time |-> r.res[i].end,
                                  text |-> r.res[i].text])] : r \in results }

\* C29: a step of index_video(p, S) or remove_video_index(p) that changes
\* the database leaves, for every other path q, the video record, the
\* segments and the hits of every search as they were
C29_OtherPathsUnchanged ==
  [][DB' # DB =>
       \A q \in Paths \ {Touched} :
         /\ { v \in videos' : v.path = q } = { v \in videos : v.path = q }
         /\ get_all_segments_of(DB', q) = get_all_segments_of(DB, q)
         /\ \A limit \in Limits :
              Shown(search_of(DB', q, <<"a">>, limit))
                = Shown(search_of(DB, q, <<"a">>, limit))]_vars

====
